---------------------------- MODULE Spec2Model ----------------------------
(***************************************************************************)
(* Model of tools/moon_phase_img_maker/src/main.py: the moon-phase icon    *)
(* renderer (render_moon_icon), the driver that writes one icon per lunar  *)
(* age (save_all_icons / save_icon) and the bisection d_from_lit_fraction. *)
(*                                                                         *)
(* Arithmetic.  The renderer's floating point test  dot > 0  is decided    *)
(* exactly: with a = px - cx, b = py - cy and n = r*r - a*a - b*b the sign *)
(* of  dx*sin + dz*(-cos)  is the sign of  a*sin + sqrt(n)*(-cos)  (r > 0).*)
(* math.sin / math.cos are tables in hundredths; where the exact value is  *)
(* 0 but the double is not (sin(pi) = 1.22e-16, cos(pi/2) = 6.1e-17,       *)
(* cos(3pi/2) = -1.8e-16) the table keeps the sign of that double as a     *)
(* second component, which decides the test when the main part is 0.       *)
(* The tables were compared with the double computation of lines 106-125   *)
(* for every pixel of every radius 1..9 and of radius 56 (quadrant angles).*)
(***************************************************************************)
EXTENDS Integers, Sequences, FiniteSets, TLC

VARIABLES
    size,        \* render_moon_icon: size argument
    margin,      \* render_moon_icon: margin argument
    phase_deg,   \* render_moon_icon: phase_deg argument (degrees)
    fraction,    \* render_moon_icon: fraction argument (percent)
    waxing,      \* render_moon_icon: waxing argument
    bbox_check,  \* whether the imaging library rejects a box with x1 < x0
    out,         \* outcome of the latest render_moon_icon call
    ref,         \* the first call of the run: its phase_deg and outcome
    pc,          \* save_all_icons: position ("start", "loop", "returned", "raised")
    days,        \* save_all_icons: days argument
    age,         \* save_all_icons: loop variable, the next age to save
    files,       \* names of the files written to outdir, in order of writing
    outdir,      \* whether the output directory exists
    base_cache,  \* lru_cache of base_new_moon: "empty" or "epoch"
    bis          \* d_from_lit_fraction: its arguments, locals and position

renderVars == <<size, margin, phase_deg, fraction, waxing, bbox_check, out, ref>>
driverVars == <<pc, days, age, files, outdir, base_cache>>
vars == <<renderVars, driverVars, bis>>

----------------------------------------------------------------------------
(* Bounds of the model *)

MaxSize == 11      \* largest icon size of the small configurations
MaxMargin == 3     \* largest margin of the small configurations
MaxCallSize == 6   \* largest icon size of the runs of several calls
MaxDays == 11      \* largest days argument besides DAYS
MaxExtra == 3      \* driver sizes reach 2*MARGIN + MaxExtra

(* Configuration constants, main.py lines 22-28 *)
SIZE == 128
MARGIN == 8
DAYS == 30
BG == <<255, 255, 255>>
MOON == <<255, 214, 0>>
SHADOW == <<0, 0, 0>>

(* Phase angles handed to the renderer, in degrees. *)
PhaseAngles == {0, 40, 90, 140, 180, 220, 270, 320, 360}
Fractions == {0, 50, 100}

----------------------------------------------------------------------------
(* math.sin(math.radians(deg)) as <<hundredths, sign of the double when the *)
(* exact value is 0>>, for deg already reduced to [0, 360).                 *)
sin(deg) ==
    CASE deg = 0   -> <<0, 0>>
      [] deg = 40  -> <<64, 0>>
      [] deg = 90  -> <<100, 0>>
      [] deg = 140 -> <<64, 0>>
      [] deg = 180 -> <<0, 1>>
      [] deg = 220 -> <<-64, 0>>
      [] deg = 270 -> <<-100, 0>>
      [] deg = 320 -> <<-64, 0>>

cos(deg) ==
    CASE deg = 0   -> <<100, 0>>
      [] deg = 40  -> <<77, 0>>
      [] deg = 90  -> <<0, 1>>
      [] deg = 140 -> <<-77, 0>>
      [] deg = 180 -> <<-100, 0>>
      [] deg = 220 -> <<-77, 0>>
      [] deg = 270 -> <<0, -1>>
      [] deg = 320 -> <<77, 0>>

Neg(v) == <<-v[1], -v[2]>>

(* sun_dir with the sign of the z component lost: (sin, 0, cos) *)
sun_dir_towards(phase) ==
    LET sun_angle == phase % 360
    IN  [x |-> sin(sun_angle), y |-> <<0, 0>>, z |-> cos(sun_angle)]

(* sun_dir with the x and z components exchanged: (-cos, 0, sin) *)
sun_dir_swapped(phase) ==
    LET sun_angle == phase % 360
    IN  [x |-> Neg(cos(sun_angle)), y |-> <<0, 0>>, z |-> sin(sun_angle)]

(* lines 106-111: sun_angle = radians(phase_deg % 360.0); sun_dir *)
sun_dir(phase) ==
    LET sun_angle == phase % 360
    IN  [x |-> sin(sun_angle), y |-> <<0, 0>>, z |-> Neg(cos(sun_angle))]

Sign(v) == IF v > 0 THEN 1 ELSE IF v < 0 THEN -1 ELSE 0

(* sign of p + q*sqrt(n) for integers p, q and n > 0 *)
SignLin(p, q, n) ==
    IF p >= 0 /\ q >= 0 THEN (IF p > 0 \/ q > 0 THEN 1 ELSE 0)
    ELSE IF p <= 0 /\ q <= 0 THEN -1
    ELSE IF p > 0 THEN Sign(p * p - q * q * n)
    ELSE Sign(q * q * n - p * p)

(* line 123-124: dot = dx*sun_dir[0] + dy*sun_dir[1] + dz*sun_dir[2]; dot > 0 *)
DotPositive(a, n, sun) ==
    LET main == SignLin(a * sun.x[1], sun.z[1], n)
    IN  IF main # 0 THEN main > 0
        ELSE SignLin(a * sun.x[2], sun.z[2], n) > 0

(* the radius rounded up instead of down *)
Radius_rounded_up(sz, mg) == (sz - 2 * mg + 1) \div 2

(* lines 87-89 *)
Centre(sz) == sz \div 2
Radius(sz, mg) == (sz - 2 * mg) \div 2

(* lines 91-92, 98: ImageDraw.ellipse(bbox, fill=...): the pixels of the   *)
(* filled ellipse with box (cx-r, cy-r, cx+r, cy+r); nothing when r < 0.   *)
InEllipse(a, b, r) == r >= 0 /\ a * a + b * b <= r * r

(* line 133: ImageDraw.ellipse(bbox, outline=..., width=1): the pixels of  *)
(* the ellipse that are not in the ellipse one pixel smaller.             *)
OnOutline(a, b, r) == InEllipse(a, b, r) /\ ~InEllipse(a, b, r - 1)

(* lines 116-125: the body of the pixel loop for one pixel *)
LitPixel(px, py, sz, mg, phase) ==
    LET a == px - Centre(sz)
        b == py - Centre(sz)
        r == Radius(sz, mg)
        n == r * r - a * a - b * b
    IN  IF ~InEllipse(a, b, r) THEN 0
        ELSE IF n <= 0 THEN 0
        ELSE IF DotPositive(a, n, sun_dir(phase)) THEN 255 ELSE 0

Pixels(sz) == (0 .. sz - 1) \X (0 .. sz - 1)

(* a lit mask that reads the waxing flag: mirrored when the moon wanes *)
LitMask_by_waxing(sz, mg, phase, frac, wax) ==
    [p \in Pixels(sz) |->
        IF wax THEN LitPixel(p[1], p[2], sz, mg, phase)
        ELSE LitPixel(2 * Centre(sz) - p[1], p[2], sz, mg, phase)]

(* lines 102-125: lit_mask after the pixel loop *)
LitMask(sz, mg, phase, frac, wax) ==
    [p \in Pixels(sz) |-> LitPixel(p[1], p[2], sz, mg, phase)]

(* Image.alpha_composite for one pixel, source alpha 0 or 255 *)
Over(dst, src, alpha) == IF alpha = 255 THEN src ELSE dst

(* the layers composited with the outline under the lit layer *)
Composite_outline_first(sz, mg, mask) ==
    [p \in Pixels(sz) |->
        LET a == p[1] - Centre(sz)
            b == p[2] - Centre(sz)
            r == (sz - 2 * mg) \div 2
            l0 == BG
            l1 == Over(l0, SHADOW, IF InEllipse(a, b, r) THEN 255 ELSE 0)
            l2 == Over(l1, SHADOW, IF OnOutline(a, b, r) THEN 255 ELSE 0)
            l3 == Over(l2, MOON, mask[p])
        IN  l3]

(* lines 94-136: the four layers composited back to front, alpha dropped *)
Composite(sz, mg, mask) ==
    [p \in Pixels(sz) |->
        LET a == p[1] - Centre(sz)
            b == p[2] - Centre(sz)
            r == Radius(sz, mg)
            l0 == BG
            l1 == Over(l0, SHADOW, IF InEllipse(a, b, r) THEN 255 ELSE 0)
            l2 == Over(l1, MOON, mask[p])
            l3 == Over(l2, SHADOW, IF OnOutline(a, b, r) THEN 255 ELSE 0)
        IN  l3]

(* lines 77-136: the outcome of one call.  r is the radius of line 88,     *)
(* layers counts the Image.new calls made before the call ended,           *)
(* classified the pixels the loop visited.                                 *)
(*   r < 0: ellipse() is handed a box with x1 < x0; a library that checks  *)
(*          the box raises ValueError at line 92, one that does not draws  *)
(*          nothing and the call returns an icon without a disk.           *)
(*   r = 0: line 114 divides by r in the first iteration of the loop.      *)
render_moon_icon(frac, wax, phase, sz, mg, strict) ==
    LET r == Radius(sz, mg)
    IN  IF r < 0 /\ strict
        THEN [status |-> "ValueError", r |-> r, layers |-> 1,
              classified |-> 0, lit_mask |-> <<>>, image |-> <<>>]
        ELSE IF r = 0
        THEN [status |-> "ZeroDivisionError", r |-> r, layers |-> 4,
              classified |-> 0, lit_mask |-> <<>>, image |-> <<>>]
        ELSE LET mask == LitMask(sz, mg, phase, frac, wax)
             IN  [status |-> "ok", r |-> r, layers |-> 6,
                  classified |-> sz * sz, lit_mask |-> mask,
                  image |-> Composite(sz, mg, mask)]

NoCall == [status |-> "none"]

----------------------------------------------------------------------------
(* Idle values of the parts of the state a specification does not use *)

IdleDriver ==
    /\ pc = "idle"
    /\ days = 0
    /\ age = 0
    /\ files = <<>>
    /\ outdir = FALSE
    /\ base_cache = "empty"

IdleBisect == bis = [pc |-> "idle"]

----------------------------------------------------------------------------
(* SpecRender: render_moon_icon as a function of its arguments.            *)
(* The arguments are drawn by the initial state: every small               *)
(* configuration with every phase angle, and the default configuration     *)
(* (SIZE, MARGIN) at new moon and at first quarter.                        *)

SmallInputs ==
    [size : 1 .. MaxSize, margin : 1 .. MaxMargin, phase_deg : PhaseAngles,
     fraction : Fractions, waxing : BOOLEAN]

DefaultInputs ==
    {[size |-> SIZE, margin |-> MARGIN, phase_deg |-> 0,
      fraction |-> 0, waxing |-> TRUE],
     [size |-> SIZE, margin |-> MARGIN, phase_deg |-> 90,
      fraction |-> 50, waxing |-> TRUE]}

InitRender ==
    /\ \E in \in SmallInputs \cup DefaultInputs :
         /\ size = in.size
         /\ margin = in.margin
         /\ phase_deg = in.phase_deg
         /\ fraction = in.fraction
         /\ waxing = in.waxing
    /\ bbox_check \in BOOLEAN
    /\ out = NoCall
    /\ ref = NoCall
    /\ IdleDriver
    /\ IdleBisect

(* one call render_moon_icon(fraction=, waxing=, phase_deg=, size=, margin=) *)
Render ==
    /\ out.status = "none"
    /\ out' = render_moon_icon(fraction, waxing, phase_deg, size, margin,
                               bbox_check)
    /\ UNCHANGED <<size, margin, phase_deg, fraction, waxing, bbox_check, ref>>
    /\ UNCHANGED <<driverVars, bis>>

NextRender == Render

SpecRender == InitRender /\ [][NextRender]_vars

----------------------------------------------------------------------------
(* SpecCalls: a run of several calls of render_moon_icon with one valid    *)
(* configuration; ref keeps the first call of the run.                     *)

CallFractions == {0, 100}
CallPhases == {0, 90, 140, 180, 220, 270}

InitCalls ==
    /\ margin \in 1 .. MaxMargin
    /\ size \in 2 * margin + 2 .. MaxCallSize
    /\ bbox_check \in BOOLEAN
    /\ phase_deg = 0
    /\ fraction = 0
    /\ waxing = FALSE
    /\ out = NoCall
    /\ ref = NoCall
    /\ IdleDriver
    /\ IdleBisect

Call ==
    /\ out.status \in {"none", "ok"}
    /\ \E ph \in CallPhases, fr \in CallFractions, wx \in BOOLEAN :
         /\ phase_deg' = ph
         /\ fraction' = fr
         /\ waxing' = wx
         /\ out' = render_moon_icon(fr, wx, ph, size, margin, bbox_check)
    /\ ref' = IF ref.status = "none" /\ out.status # "none"
              THEN [status |-> out.status, phase_deg |-> phase_deg,
                    fraction |-> fraction, waxing |-> waxing,
                    lit_mask |-> out.lit_mask, image |-> out.image]
              ELSE ref
    /\ UNCHANGED <<size, margin, bbox_check>>
    /\ UNCHANGED <<driverVars, bis>>

NextCalls == Call

SpecCalls == InitCalls /\ [][NextCalls]_vars

----------------------------------------------------------------------------
(* Spec: the program, save_all_icons(days, outdir, size).                  *)

(* the decimal digits of n >= 0 *)
RECURSIVE Digits(_)
Digits(n) == IF n < 10 THEN <<n>> ELSE Append(Digits(n \div 10), n % 10)

(* the age formatted without padding, f"{age}" *)
Format_d(n) == Digits(n)

(* line 179: f"{age:02d}": decimal, padded with zeros to at least 2 digits *)
Format02d(n) == IF Len(Digits(n)) < 2 THEN <<0>> \o Digits(n) ELSE Digits(n)

(* line 179: the file name f"moon_{age:02d}.jpg" *)
FileName(a) == <<"moon_">> \o Format02d(a) \o <<".jpg">>

(* lines 149-159: what the ephemeris returned (phase angle, illuminated    *)
(* fraction) becomes (fraction, waxing, phase_deg)                         *)
fraction_and_waxing_at_age(ill_fraction, moon_phase) ==
    <<ill_fraction, moon_phase < 180, moon_phase>>

(* lines 170-178: the render of save_icon, for one answer of the ephemeris *)
IconOutcome(fr, ph) ==
    LET t == fraction_and_waxing_at_age(fr, ph)
    IN  render_moon_icon(t[1], t[2], t[3], size, MARGIN, bbox_check)

(* MoonPhase returns an angle in [0, 360) *)
MoonPhases == PhaseAngles \ {360}

DriverSizes == (2 * MARGIN - 1 .. 2 * MARGIN + MaxExtra) \cup {SIZE}
DaysArgs == (0 .. MaxDays) \cup {DAYS}

Init ==
    /\ pc = "start"
    /\ days \in DaysArgs
    /\ size \in DriverSizes
    /\ margin = MARGIN
    /\ bbox_check \in BOOLEAN
    /\ age = 0
    /\ files = <<>>
    /\ outdir \in BOOLEAN
    /\ base_cache = "empty"
    /\ phase_deg = 0
    /\ fraction = 0
    /\ waxing = FALSE
    /\ out = NoCall
    /\ ref = NoCall
    /\ IdleBisect

(* line 192: os.makedirs(outdir, exist_ok=True) *)
MakeDirs ==
    /\ pc = "start"
    /\ outdir' = TRUE
    /\ pc' = "loop"
    /\ UNCHANGED <<days, age, files, base_cache, renderVars, bis>>

(* line 192: os.makedirs raises (the directory cannot be created) *)
MakeDirsRaises ==
    /\ pc = "start"
    /\ ~outdir
    /\ pc' = "raised"
    /\ UNCHANGED <<days, age, files, outdir, base_cache, renderVars, bis>>

(* lines 195-196, 162-187: one iteration, save_icon returns *)
SaveIcon ==
    /\ pc = "loop"
    /\ age < days
    /\ \E fr \in Fractions, ph \in MoonPhases :
         IconOutcome(fr, ph).status = "ok"
    /\ base_cache' = "epoch"
    /\ files' = Append(files, FileName(age))
    /\ age' = age + 1
    /\ UNCHANGED <<pc, days, outdir, renderVars, bis>>

(* lines 173-178: render_moon_icon raises inside save_icon; nothing        *)
(* catches it, save_all_icons ends                                         *)
SaveIconRenderRaises ==
    /\ pc = "loop"
    /\ age < days
    /\ \E fr \in Fractions, ph \in MoonPhases :
         IconOutcome(fr, ph).status \notin {"ok", "none"}
    /\ base_cache' = "epoch"
    /\ pc' = "raised"
    /\ UNCHANGED <<days, age, files, outdir, renderVars, bis>>

(* lines 180-186: img.save raises (the file cannot be written) *)
SaveIconSaveRaises ==
    /\ pc = "loop"
    /\ age < days
    /\ \E fr \in Fractions, ph \in MoonPhases :
         IconOutcome(fr, ph).status = "ok"
    /\ base_cache' = "epoch"
    /\ pc' = "raised"
    /\ UNCHANGED <<days, age, files, outdir, renderVars, bis>>

(* line 195: range(days) is exhausted, save_all_icons returns *)
Return ==
    /\ pc = "loop"
    /\ age >= days
    /\ pc' = "returned"
    /\ UNCHANGED <<days, age, files, outdir, base_cache, renderVars, bis>>

Next ==
    \/ MakeDirs
    \/ MakeDirsRaises
    \/ SaveIcon
    \/ SaveIconRenderRaises
    \/ SaveIconSaveRaises
    \/ Return

Spec == Init /\ [][Next]_vars

----------------------------------------------------------------------------
(* SpecBisect: d_from_lit_fraction(f, r).                                  *)
(* Lengths (r, d, lo, hi, eps) are integers in units of 1e-4; f and lit    *)
(* fractions are in thousandths; areas are in units of r*r/1000, so that   *)
(* pi*r*r is PiMilli whatever r is.  Divisions round down.                 *)

PiMilli == 3142    \* math.pi in thousandths
ITERATIONS == 40   \* line 66: range(40)

(* arguments: r = 0.0004, 1.0, 20.0, 56.0; f = -0.25 .. 1.25 *)
BisectRadii == {4, 10000, 200000, 560000}
BisectFractions == {-250, 0, 250, 500, 750, 1000, 1250}

Max(x, y) == IF x >= y THEN x ELSE y
Min(x, y) == IF x <= y THEN x ELSE y

(* math.sqrt on 0 .. 10^6, rounded down *)
Isqrt(v) == CHOOSE k \in 0 .. 1000 : k * k <= v /\ v < (k + 1) * (k + 1)

(* math.acos in thousandths of a radian at x = 0, 0.05, .., 1.0 *)
AcosTable ==
    <<1571, 1521, 1471, 1420, 1369, 1318, 1266, 1213, 1159, 1104, 1047,
      988, 927, 863, 795, 723, 644, 555, 451, 318, 0>>

(* math.acos(x / 1000) in thousandths of a radian, for 0 <= x <= 1000,     *)
(* interpolated between the table's entries                                 *)
Acos(x) ==
    LET k == x \div 50
        t == x % 50
    IN  IF k >= 20 THEN 0
        ELSE AcosTable[k + 1]
             - ((AcosTable[k + 1] - AcosTable[k + 2]) * t) \div 50

(* lines 36-44: the overlap area of two circles of radius r at distance d  *)
circle_overlap_area_equal_r(d, r) ==
    IF d <= 0 THEN PiMilli
    ELSE IF d >= 2 * r THEN 0
    ELSE LET x == (d * 1000) \div (2 * r)      \* d / (2 * r), thousandths
             s == Isqrt(1000000 - x * x)       \* sqrt(4*r*r - d*d) / (2*r)
         IN  2 * Acos(x) - (2 * x * s) \div 1000

(* line 58 *)
area_circle(r) == PiMilli

(* lines 60-62: lit_from_d, in thousandths *)
lit_from_d(dval, r) ==
    LET overlap == circle_overlap_area_equal_r(dval, r)
    IN  1000 - (overlap * 1000) \div area_circle(r)

(* line 54: eps = max(1e-3, r * 1e-4) *)
Eps(r) == Max(10, r \div 10000)

(* the search started at hi = 2r, without eps *)
InitialHi_no_eps(r) == 2 * r

(* line 65: the initial hi of the search *)
InitialHi(r) == 2 * r - Eps(r)

(* line 67 *)
Mid(lo, hi) == (lo + hi) \div 2

InitBisect ==
    /\ \E f \in BisectFractions, r \in BisectRadii :
         bis = [pc |-> "called", f |-> f, r |-> r, lo |-> 0, hi |-> 0,
                i |-> 0, d |-> 0]
    /\ size = 1
    /\ margin = 1
    /\ bbox_check = FALSE
    /\ phase_deg = 0
    /\ fraction = 0
    /\ waxing = FALSE
    /\ out = NoCall
    /\ ref = NoCall
    /\ IdleDriver

(* lines 52-53: f <= 0 returns 0 *)
ReturnZero ==
    /\ bis.pc = "called"
    /\ bis.f <= 0
    /\ bis' = [bis EXCEPT !.pc = "returned", !.d = 0]
    /\ UNCHANGED <<renderVars, driverVars>>

(* lines 54-56: f >= 1 returns 2r - eps *)
ReturnFull ==
    /\ bis.pc = "called"
    /\ bis.f > 0
    /\ bis.f >= 1000
    /\ bis' = [bis EXCEPT !.pc = "returned", !.d = 2 * bis.r - Eps(bis.r)]
    /\ UNCHANGED <<renderVars, driverVars>>

(* line 65: lo, hi = 0.0, 2 * r - eps *)
StartSearch ==
    /\ bis.pc = "called"
    /\ bis.f > 0
    /\ bis.f < 1000
    /\ bis' = [bis EXCEPT !.pc = "search", !.lo = 0, !.hi = InitialHi(bis.r)]
    /\ UNCHANGED <<renderVars, driverVars>>

(* lines 66-71: one iteration of the bisection *)
BisectStep ==
    /\ bis.pc = "search"
    /\ bis.i < ITERATIONS
    /\ LET mid == Mid(bis.lo, bis.hi)
       IN  IF lit_from_d(mid, bis.r) < bis.f
           THEN bis' = [bis EXCEPT !.lo = mid, !.i = bis.i + 1]
           ELSE bis' = [bis EXCEPT !.hi = mid, !.i = bis.i + 1]
    /\ UNCHANGED <<renderVars, driverVars>>

(* lines 73-74: d = (lo + hi) / 2; return min(d, 2 * r - eps) *)
ReturnSearch ==
    /\ bis.pc = "search"
    /\ bis.i >= ITERATIONS
    /\ bis' = [bis EXCEPT !.pc = "returned",
                          !.d = Min(Mid(bis.lo, bis.hi),
                                    2 * bis.r - Eps(bis.r))]
    /\ UNCHANGED <<renderVars, driverVars>>

NextBisect ==
    \/ ReturnZero
    \/ ReturnFull
    \/ StartSearch
    \/ BisectStep
    \/ ReturnSearch

SpecBisect == InitBisect /\ [][NextBisect]_vars

----------------------------------------------------------------------------
(* Properties *)

(* offsets of pixel p from the disk centre, and the squared height nz_sq   *)
(* of the sphere over it, times r*r                                        *)
OffX(p) == p[1] - size \div 2
OffY(p) == p[2] - size \div 2
Rendered == out.status = "ok" /\ size > 2 * margin

(* C1: new moon.  A render of a valid configuration with phase_deg = 0     *)
(* marks no pixel lit, and every pixel of the disk has the shadow colour   *)
(* (so none has the moon colour).                                          *)
C1_NewMoonUnlit ==
    (Rendered /\ phase_deg = 0) =>
        \A p \in Pixels(size) :
            /\ out.lit_mask[p] = 0
            /\ InEllipse(OffX(p), OffY(p), out.r) =>
                 (out.image[p] = SHADOW /\ out.image[p] # MOON)

C1_Witness ==
    /\ Rendered
    /\ phase_deg = 0
    /\ size = SIZE
    /\ margin = MARGIN
    /\ out.image[<<64, 64>>] = SHADOW

(* C2: terminator symmetry, as claimed.  Pixel (px, py) is lit at          *)
(* phase_deg exactly when (size - 1 - px, py) is lit at 360 - phase_deg.   *)
C2_TerminatorSymmetry ==
    Rendered =>
        \A p \in Pixels(size) :
            (out.lit_mask[p] = 255) <=>
            (LitMask(size, margin, 360 - phase_deg, fraction, waxing)
                 [<<size - 1 - p[1], p[2]>>] = 255)

(* C3: full moon.  A render of a valid configuration with phase_deg = 180  *)
(* marks lit every pixel of the disk mask with nz_sq > 0.                  *)
C3_FullMoonLit ==
    (Rendered /\ phase_deg = 180) =>
        \A p \in Pixels(size) :
            ( /\ InEllipse(OffX(p), OffY(p), out.r)
              /\ out.r * out.r - OffX(p) * OffX(p) - OffY(p) * OffY(p) > 0 )
            => out.lit_mask[p] = 255

C3_Witness ==
    /\ Rendered
    /\ phase_deg = 180
    /\ \E p \in Pixels(size) : OffX(p) < 0 /\ out.lit_mask[p] = 255
    /\ \E p \in Pixels(size) : OffX(p) > 0 /\ out.lit_mask[p] = 255

(* C4: half moon, end to end.  render_moon_icon(phase_deg=90, size=128,    *)
(* margin=8): inside the outline the pixels right of the centre column     *)
(* have the moon colour, every disk pixel with px <= cx and every pixel of *)
(* the outline has the shadow colour, every pixel outside the disk (the    *)
(* four corners among them) is white.                                      *)
C4_HalfMoon ==
    (Rendered /\ phase_deg = 90 /\ size = 128 /\ margin = 8) =>
        /\ \A p \in Pixels(size) :
             LET a == OffX(p)
                 b == OffY(p)
             IN  /\ ~InEllipse(a, b, out.r) => out.image[p] = <<255, 255, 255>>
                 /\ OnOutline(a, b, out.r) => out.image[p] = <<0, 0, 0>>
                 /\ (InEllipse(a, b, out.r) /\ a <= 0)
                      => out.image[p] = <<0, 0, 0>>
                 /\ (InEllipse(a, b, out.r) /\ ~OnOutline(a, b, out.r) /\ a > 0)
                      => out.image[p] = <<255, 214, 0>>
        /\ \A c \in {<<0, 0>>, <<127, 0>>, <<0, 127>>, <<127, 127>>} :
             out.image[c] = <<255, 255, 255>>

C4_Witness ==
    /\ Rendered
    /\ phase_deg = 90
    /\ size = 128
    /\ margin = 8
    /\ out.image[<<100, 64>>] = MOON
    /\ out.image[<<64, 64>>] = SHADOW
    /\ out.image[<<120, 64>>] = SHADOW
    /\ out.image[<<0, 0>>] = BG

(* C5: the outcome is a function of (phase_deg, size, margin).  Two calls  *)
(* of one run (one size, one margin) with equal phase_deg have equal lit   *)
(* masks and equal images, whatever their fraction and waxing arguments    *)
(* and whatever calls lie between them.                                    *)
C5_SameInputsSameOutput ==
    (ref.status = "ok" /\ out.status = "ok" /\ ref.phase_deg = phase_deg) =>
        /\ ref.lit_mask = out.lit_mask
        /\ ref.image = out.image

C5_Witness ==
    /\ ref.status = "ok"
    /\ out.status = "ok"
    /\ ref.phase_deg = phase_deg
    /\ phase_deg = 90
    /\ ref.waxing # waxing
    /\ ref.fraction # fraction
    /\ \E p \in Pixels(size) : OffX(p) > 0 /\ out.lit_mask[p] = 255
    /\ \E p \in Pixels(size) :
         /\ OffX(p) < 0
         /\ out.r * out.r - OffX(p) * OffX(p) - OffY(p) * OffY(p) > 0
         /\ out.lit_mask[p] = 0

(* C6: the whole run of save_all_icons.  The files written are, in order,  *)
(* moon_00.jpg, moon_01.jpg, ... (two decimal digits, zero padded), one    *)
(* per age processed; a file is only ever added at the end, for the next   *)
(* age, while the loop runs; once a failure has propagated nothing more is *)
(* written; and a run that returned has written a file for every age       *)
(* 0 .. days-1.                                                            *)
C6_FilesOfAges ==
    /\ Len(files) = age
    /\ \A k \in 1 .. Len(files) :
         files[k] = <<"moon_", (k - 1) \div 10, (k - 1) % 10, ".jpg">>
    /\ pc = "returned" => Len(files) = days

C6_WholeRun ==
    /\ []C6_FilesOfAges
    /\ [][ /\ files' # files =>
                ( /\ pc = "loop"
                  /\ Len(files') = Len(files) + 1
                  /\ \A k \in 1 .. Len(files) : files'[k] = files[k] )
           /\ pc = "raised" => (pc' = "raised" /\ files' = files)
           /\ pc = "returned" => files' = files ]_vars

C6_Witness ==
    /\ pc = "returned"
    /\ days = 30
    /\ Len(files) = 30
    /\ files[8] = <<"moon_", 0, 7, ".jpg">>
    /\ files[30] = <<"moon_", 2, 9, ".jpg">>

(* C7: geometry misconfiguration, as claimed.  With size <= 2*margin the   *)
(* call ends with an error before any image layer is created and before    *)
(* any pixel is classified.                                                *)
C7_MisconfigurationRejected ==
    (size <= 2 * margin /\ out.status # "none") =>
        /\ out.status # "ok"
        /\ out.layers = 0
        /\ out.classified = 0

(* C8: no failure for a valid configuration, as claimed.  With             *)
(* size > 2*margin the call returns a size x size image.                   *)
C8_ValidConfigurationRenders ==
    (size > 2 * margin /\ out.status # "none") =>
        /\ out.status = "ok"
        /\ DOMAIN out.image = Pixels(size)

(* C9, as claimed: with size > 2*margin the radius the call computed       *)
(* satisfies 2*radius + 2*margin = size and radius >= 1.                   *)
C9_DiskGeometryClaimed ==
    (size > 2 * margin /\ out.status # "none") =>
        /\ 2 * out.r + 2 * margin = size
        /\ out.r >= 1

(* C9, amended: with size > 2*margin, 2*radius + 2*margin is size when     *)
(* size is even and size - 1 when size is odd, and radius >= 1 exactly     *)
(* when size >= 2*margin + 2 (at size = 2*margin + 1 the radius is 0).     *)
C9_DiskGeometry ==
    (size > 2 * margin /\ out.status # "none") =>
        /\ size % 2 = 0 => 2 * out.r + 2 * margin = size
        /\ size % 2 = 1 => 2 * out.r + 2 * margin = size - 1
        /\ out.r >= 1 <=> size >= 2 * margin + 2
        /\ out.r >= 0

C9_Witness ==
    /\ out.status = "ok"
    /\ size > 2 * margin
    /\ size % 2 = 1
    /\ out.r >= 2

=============================================================================
